---- MODULE Spec2Model ----
(***************************************************************************)
(* A model of the Highlighter class of search-highlight                    *)
(* (src/src/highlight.ts, lines 1-308, with src/unnamed/part_001 holding   *)
(* escapeRegExp and binarySearch).                                         *)
(*                                                                         *)
(* Strings are tuples of one-character strings.  The document body is the  *)
(* pre-order serialisation of its DOM tree: a sequence of items, each a    *)
(* text node, the opening of an element or the closing of an element.      *)
(* Two consecutive text items are sibling text nodes.  Text is drawn from  *)
(* characters that are not significant to the HTML parser ("<", "&").      *)
(***************************************************************************)
EXTENDS Integers, Sequences, FiniteSets, TLC

VARIABLES
    doc,                   \* the children of document.body, serialised
    insts,                 \* the Highlighter instances constructed so far
    highlighterIdCounter,  \* Highlighter.highlighterIdCounter
    sheet,                 \* the rules of Highlighter.sharedStyleElement.sheet
    hung,                  \* a highlight call is spinning in its match loop
    last                   \* the call made last and what it did

vars == <<doc, insts, highlighterIdCounter, sheet, hung, last>>

(***************************************************************************)
(* Bounds of the model.                                                    *)
(***************************************************************************)
MaxInstances == 2
MaxMarkers == 2
MaxMappings == 4
MaxLength == 2

(***************************************************************************)
(* Sequences.                                                              *)
(***************************************************************************)
Range(s) == {s[k] : k \in DOMAIN s}

Min(S) == CHOOSE x \in S : \A y \in S : x <= y

Max(S) == CHOOSE x \in S : \A y \in S : x >= y

RECURSIVE Flatten(_)
Flatten(ss) ==
    IF Len(ss) = 0 THEN <<>>
    ELSE IF Len(ss) = 1 THEN ss[1]
    ELSE Flatten(SubSeq(ss, 1, Len(ss) \div 2)) \o Flatten(SubSeq(ss, Len(ss) \div 2 + 1, Len(ss)))

\* s[a+1 .. b] in 0-based half-open coordinates [a, b), as String.slice
Slice(s, a, b) == SubSeq(s, a + 1, b)

(***************************************************************************)
(* Characters.                                                             *)
(***************************************************************************)
Lower(c) ==
    CASE c = "H" -> "h"
      [] c = "T" -> "t"
      [] c = "A" -> "a"
      [] OTHER -> c

\* String.prototype.trim() leaves nothing: every character is white space
IsBlank(s) == \A k \in DOMAIN s : s[k] \in {" ", "\n"}

(***************************************************************************)
(* escapeRegExp (part_001:1-3) and the regular expressions the model       *)
(* needs: an optional group around an alternation of sequences of          *)
(* literal characters, escaped characters and ".", each of which may be    *)
(* followed by "*".                                                        *)
(***************************************************************************)
MetaChars == {".", "*", "+", "?", "^", "$", "{", "}", "(", ")", "|", "[", "]", "\\"}

\* the string as it is, with no character escaped
NoEscape(s) == s

RECURSIVE escapeRegExp(_)
escapeRegExp(s) ==
    IF s = <<>> THEN <<>>
    ELSE (IF Head(s) \in MetaChars THEN <<"\\", Head(s)>> ELSE <<Head(s)>>)
         \o escapeRegExp(Tail(s))

\* terms.join('|')
RECURSIVE Join(_)
Join(ss) ==
    IF ss = <<>> THEN <<>>
    ELSE IF Len(ss) = 1 THEN ss[1]
    ELSE ss[1] \o <<"|">> \o Join(Tail(ss))

\* the atoms of one alternative: \c is the character c, . is any character,
\* and an atom followed by * stands for any number of repetitions of it
RECURSIVE Atoms(_)
Atoms(src) ==
    IF src = <<>> THEN <<>>
    ELSE LET n == IF src[1] = "\\" /\ Len(src) >= 2 THEN 2 ELSE 1
             star == Len(src) > n /\ src[n + 1] = "*"
         IN  <<[any |-> n = 1 /\ src[1] = ".", c |-> src[n], star |-> star]>>
             \o Atoms(SubSeq(src, n + (IF star THEN 2 ELSE 1), Len(src)))

\* the alternatives of a pattern body: split at every "|" that is not escaped
RECURSIVE SplitAlt(_, _)
SplitAlt(src, acc) ==
    IF src = <<>> THEN <<acc>>
    ELSE IF src[1] = "\\" /\ Len(src) >= 2
         THEN SplitAlt(SubSeq(src, 3, Len(src)), acc \o SubSeq(src, 1, 2))
    ELSE IF src[1] = "|" THEN <<acc>> \o SplitAlt(Tail(src), <<>>)
    ELSE SplitAlt(Tail(src), Append(acc, src[1]))

\* the character at position k of src is escaped: an odd number of
\* backslashes stands before it
Escaped(src, k) ==
    /\ k > 1
    /\ src[k - 1] = "\\"
    /\ LET others == {j \in 1 .. (k - 1) : src[j] # "\\"}
       IN  (k - 1 - (IF others = {} THEN 0 ELSE Max(others))) % 2 = 1

\* the source has a capturing group around the whole alternation
Grouped(src) ==
    /\ Len(src) >= 2
    /\ src[1] = "("
    /\ src[Len(src)] = ")"
    /\ ~Escaped(src, Len(src))

\* new RegExp(src) raises a SyntaxError: a backslash at the end, a
\* quantifier with nothing to repeat, parentheses that do not pair, or a
\* character class that is not closed
SyntaxError(src) ==
    LET meta == {k \in DOMAIN src :
                    src[k] \in {"\\", "*", "+", "?", "(", ")", "|", "["} /\ ~Escaped(src, k)}
        at(cs) == {k \in meta : src[k] \in cs}
        depth(k) == Cardinality({j \in at({"("}) : j <= k})
                    - Cardinality({j \in at({")"}) : j <= k})
    IN  \/ Len(src) \in at({"\\"})
        \/ \E k \in at({"*", "+", "?"}) :
              \/ k = 1
              \/ k - 1 \in at({"(", "|"})
              \/ src[k] # "?" /\ k - 1 \in at({"*", "+", "?"})
        \/ \E k \in at({")"}) : depth(k) < 0
        \/ Cardinality(at({"("})) # Cardinality(at({")"}))
        \/ \E k \in at({"["}) : ~\E j \in (k + 1) .. Len(src) : src[j] = "]" /\ ~Escaped(src, j)

\* error: the constructor raises instead; quant: the alternatives that
\* hold a quantifier
NewRegExp(src, g, i) ==
    LET parts == SplitAlt(IF Grouped(src) THEN SubSeq(src, 2, Len(src) - 1) ELSE src, <<>>)
        alts == [k \in DOMAIN parts |-> Atoms(parts[k])]
    IN  [null |-> FALSE, error |-> SyntaxError(src), src |-> src, g |-> g, i |-> i,
         alts |-> alts,
         quant |-> {k \in DOMAIN alts : \E j \in DOMAIN alts[k] : alts[k][j].star}]

NullRegex ==
    [null |-> TRUE, error |-> FALSE, src |-> <<>>, g |-> FALSE, i |-> FALSE,
     alts |-> <<>>, quant |-> {}]

\* the pattern has a first capture group, which holds the whole match
HasGroup(re) == Grouped(re.src)

AtomMatches(a, c, ci) ==
    \/ a.any /\ c # "\n"
    \/ ~a.any /\ (IF ci THEN Lower(a.c) = Lower(c) ELSE a.c = c)

\* alternative alt matches text at the 0-based index idx
AltMatchesAt(alt, text, idx, ci) ==
    /\ idx + Len(alt) <= Len(text)
    /\ \A k \in DOMAIN alt : AtomMatches(alt[k], text[idx + k], ci)

\* where the match of the atoms k .. of alt that begins at pos ends, or -1:
\* a repeated atom takes as many characters as the rest of alt allows
RECURSIVE MatchEnd(_, _, _, _, _)
MatchEnd(alt, k, text, pos, ci) ==
    IF k > Len(alt) THEN pos
    ELSE LET run == Max({n \in 0 .. (Len(text) - pos) :
                            \A j \in 1 .. n : AtomMatches(alt[k], text[pos + j], ci)})
             takes == IF alt[k].star THEN 0 .. run ELSE IF run >= 1 THEN {1} ELSE {}
             rest == [n \in takes |-> MatchEnd(alt, k + 1, text, pos + n, ci)]
             ok == {n \in takes : rest[n] >= 0}
         IN  IF ok = {} THEN -1 ELSE rest[Max(ok)]

\* where the match of alternative k of re that begins at idx ends, or -1
AltEnd(re, k, text, idx) ==
    IF k \in re.quant THEN MatchEnd(re.alts[k], 1, text, idx, re.i)
    ELSE IF AltMatchesAt(re.alts[k], text, idx, re.i) THEN idx + Len(re.alts[k])
    ELSE -1

\* the first of the alternatives that match at idx decides: end[k] is where
\* the match of alternative k ends, or -1
FirstAlternative(end, idx) ==
    LET ok == {k \in DOMAIN end : end[k] >= 0}
    IN  IF ok = {} THEN -1 ELSE end[Min(ok)] - idx

\* the length matched at idx by the first alternative that matches, or -1
MatchLenAt(re, text, idx) ==
    FirstAlternative([k \in DOMAIN re.alts |-> AltEnd(re, k, text, idx)], idx)

NoMatch == [found |-> FALSE, index |-> 0, len |-> 0]

\* the leftmost of the matches: len[p] is the length matched at p, or -1
Leftmost(len) ==
    LET at == {p \in DOMAIN len : len[p] >= 0}
    IN  IF at = {} THEN NoMatch
        ELSE [found |-> TRUE, index |-> Min(at), len |-> len[Min(at)]]

\* the leftmost match at or after the 0-based index from
MatchFrom(re, text, from) ==
    Leftmost([p \in from .. Len(text) |-> MatchLenAt(re, text, p)])

\* RegExp.prototype.exec: the match and the new lastIndex
ExecResult(re, lastIndex, m) ==
    [m |-> m,
     lastIndex |-> IF ~re.g THEN lastIndex
                   ELSE IF m.found THEN m.index + m.len ELSE 0]

RegExpExec(re, text, lastIndex) ==
    LET start == IF re.g THEN lastIndex ELSE 0
    IN  ExecResult(re, lastIndex,
                   IF start > Len(text) THEN NoMatch ELSE MatchFrom(re, text, start))

\* the matches String.prototype.replace and match visit with a global
\* pattern: after an empty match the index is advanced by one
RECURSIVE GlobalMatches(_, _, _)
\* the match m and the matches after it
MatchesFrom(re, text, m) ==
    IF ~m.found THEN <<>>
    ELSE <<m>> \o GlobalMatches(re, text, IF m.len = 0 THEN m.index + 1 ELSE m.index + m.len)

GlobalMatches(re, text, from) ==
    IF from > Len(text) THEN <<>> ELSE MatchesFrom(re, text, MatchFrom(re, text, from))

\* the matches replace() substitutes: all of them, or the first only
ReplaceMatches(re, text) ==
    IF re.g THEN GlobalMatches(re, text, 0)
    ELSE SelectSeq(<<MatchFrom(re, text, 0)>>, LAMBDA m : m.found)

(***************************************************************************)
(* The document.  An element item carries its tag, its class, the value   *)
(* of its data-highlighter-instance attribute (-1: no attribute) and       *)
(* whether it has contenteditable="true"; by is the position in insts of   *)
(* the instance that created it (-1: the page), which the DOM does not     *)
(* hold.  id names a text node while one deep pass holds references to     *)
(* it, and is 0 otherwise.                                                 *)
(***************************************************************************)
\* a class name: name, or `${name}-${n}` when n is not -1
Class(name, n) == [name |-> name, n |-> n]

NoClass == Class("", -1)

Txt(s) == [k |-> "text", v |-> s, tag |-> "#text", cls |-> NoClass, inst |-> -1, by |-> -1, id |-> 0, editable |-> FALSE]

Open(tag, cls) == [k |-> "open", v |-> <<>>, tag |-> tag, cls |-> cls, inst |-> -1, by |-> -1, id |-> 0, editable |-> FALSE]

Close == [k |-> "close", v |-> <<>>, tag |-> "", cls |-> NoClass, inst |-> -1, by |-> -1, id |-> 0, editable |-> FALSE]

IsText(it) == it.k = "text"

IsMarker(it) == it.k = "open" /\ it.inst # -1

\* the closing item that pairs with the depth-th element open at q
RECURSIVE CloseFrom(_, _, _)
CloseFrom(d, q, depth) ==
    IF d[q].k = "close" THEN (IF depth = 1 THEN q ELSE CloseFrom(d, q + 1, depth - 1))
    ELSE CloseFrom(d, q + 1, IF d[q].k = "open" THEN depth + 1 ELSE depth)

\* the closing item of the element opened at p
MatchClose(d, p) == CloseFrom(d, p + 1, 1)

\* the opening item that pairs with the depth-th element closed after q
RECURSIVE OpenFrom(_, _, _)
OpenFrom(d, q, depth) ==
    IF q = 0 THEN 0
    ELSE IF d[q].k = "open" THEN (IF depth = 1 THEN q ELSE OpenFrom(d, q - 1, depth - 1))
    ELSE OpenFrom(d, q - 1, IF d[q].k = "close" THEN depth + 1 ELSE depth)

\* the opening item of the parent element of the node at p; 0 for document.body
ParentOpen(d, p) == OpenFrom(d, p - 1, 1)

\* Node.textContent of the items d[a .. b]
TextOfItems(s) == Flatten([k \in DOMAIN s |-> IF IsText(s[k]) THEN s[k].v ELSE <<>>])

\* element.textContent of the element opened at p
TextContent(d, p) == TextOfItems(SubSeq(d, p + 1, MatchClose(d, p) - 1))

MarkerPositions(d) == {p \in DOMAIN d : IsMarker(d[p])}

MarkerCount(d) == Cardinality(MarkerPositions(d))

\* the sorted sequence of a set of positions
SortedSeq(S) ==
    LET In(p) == p \in S
    IN  IF S = {} THEN <<>> ELSE SelectSeq([p \in 1 .. Max(S) |-> p], In)

(***************************************************************************)
(* The options of an instance (highlight.ts:56-63) and the selectors.      *)
(***************************************************************************)
DefaultClassName == Class("highlight-text", -1)

DefaultTagName == "span"

DefaultContainerClass == Class("highlightable", -1)

\* the tags of excludeSelector: script, style, textarea, input
ExcludedTags == {"script", "style", "textarea", "input"}

\* element.matches('script, style, textarea, input, [contenteditable="true"]')
Excluded(it) == it.k = "open" /\ (it.tag \in ExcludedTags \/ it.editable)

\* document.querySelectorAll(`.${containerClass}:not(${excludeSelector})`),
\* in document order
Containers(d, me) ==
    SortedSeq({p \in DOMAIN d :
        /\ d[p].k = "open"
        /\ d[p].cls = DefaultContainerClass
        /\ ~Excluded(d[p])})

\* the text nodes the TreeWalker accepts under the element opened at c
AcceptedLeaves(d, c) ==
    {q \in (c + 1) .. (MatchClose(d, c) - 1) : IsText(d[q]) /\ ~IsBlank(d[q].v)}

\* as OwnMarkers, with the class alone as the selector
OwnMarkersByClass(d, me) ==
    {p \in DOMAIN d : d[p].k = "open" /\ d[p].cls = insts[me].className}

\* document.querySelectorAll(`.${className}[${instanceAttributeName}="${instanceId}"]`)
OwnMarkers(d, me) ==
    {p \in DOMAIN d :
        d[p].k = "open" /\ d[p].cls = insts[me].className /\ d[p].inst = insts[me].instanceId}

(***************************************************************************)
(* The opening item of a marker of instance me: as the template of         *)
(* searchAndHighlight writes it (highlight.ts:161-163) and as wrapNode     *)
(* builds it (highlight.ts:273-279).                                       *)
(***************************************************************************)
MarkerTemplate(me) ==
    [k |-> "open", v |-> <<>>, tag |-> DefaultTagName, cls |-> insts[me].className,
     inst |-> insts[me].instanceId, by |-> me, id |-> 0, editable |-> FALSE]

\* as wrapNode, with the class counter where the instance's own id belongs
wrapNodeWithCounter(me) ==
    [k |-> "open", v |-> <<>>, tag |-> DefaultTagName, cls |-> insts[me].className,
     inst |-> highlighterIdCounter, by |-> me, id |-> 0, editable |-> FALSE]

wrapNode(me) ==
    [k |-> "open", v |-> <<>>, tag |-> DefaultTagName, cls |-> insts[me].className,
     inst |-> insts[me].instanceId, by |-> me, id |-> 0, editable |-> FALSE]

\* what "$1" in the replacement string stands for: the first capture group,
\* and the two characters themselves when the pattern has no group
Dollar1(re, matched) == IF HasGroup(re) THEN matched ELSE <<"$", "1">>

\* the nodes createContextualFragment parses out of a run of text
TextNodes(s) == IF s = <<>> THEN <<>> ELSE <<Txt(s)>>

\* text.replace(regex, template) parsed back into nodes: ms are the matches
\* in text from the index from on, marker opens the template
Substitute(text, re, ms, from, marker) ==
    LET end(k) == IF k = 0 THEN from ELSE ms[k].index + ms[k].len
    IN  Flatten([k \in DOMAIN ms |->
                    TextNodes(Slice(text, end(k - 1), ms[k].index))
                    \o <<marker>>
                    \o TextNodes(Dollar1(re, Slice(text, ms[k].index, end(k))))
                    \o <<Close>>])
        \o TextNodes(Slice(text, end(Len(ms)), Len(text)))

\* the fragment that replaces a text node with value text
RewriteLeaf(text, re, me) ==
    Substitute(text, re, ReplaceMatches(re, text), 0, MarkerTemplate(me))

(***************************************************************************)
(* searchAndHighlight (highlight.ts:139-171): shallow mode.                *)
(***************************************************************************)
\* node.nodeValue.match(regex) is not null
HasMatch(re, text) == MatchFrom(re, text, 0).found

searchAndHighlight(d, c, re, me) ==
    LET textNodes == {q \in AcceptedLeaves(d, c) : HasMatch(re, d[q].v)}
    IN  Flatten([q \in DOMAIN d |->
                    IF q \in textNodes THEN RewriteLeaf(d[q].v, re, me) ELSE <<d[q]>>])

(***************************************************************************)
(* removeHighlights (highlight.ts:90-106).                                 *)
(***************************************************************************)
\* Node.normalize() over the items of one subtree: empty text nodes go,
\* adjacent text nodes merge
RECURSIVE Normalize(_)
Normalize(s) ==
    IF Len(s) = 0 THEN <<>>
    ELSE IF Len(s) = 1 THEN (IF IsText(s[1]) /\ s[1].v = <<>> THEN <<>> ELSE s)
    ELSE LET left == Normalize(SubSeq(s, 1, Len(s) \div 2))
             right == Normalize(SubSeq(s, Len(s) \div 2 + 1, Len(s)))
         IN  IF left # <<>> /\ right # <<>> /\ IsText(left[Len(left)]) /\ IsText(right[1])
             THEN SubSeq(left, 1, Len(left) - 1)
                  \o <<Txt(left[Len(left)].v \o right[1].v)>>
                  \o SubSeq(right, 2, Len(right))
             ELSE left \o right

\* the marker opened at p gives its children to its parent, which is normalized
Unwrap(d, p) ==
    LET q == MatchClose(d, p)
        parent == ParentOpen(d, p)
        moved == SubSeq(d, 1, p - 1) \o SubSeq(d, p + 1, q - 1) \o SubSeq(d, q + 1, Len(d))
        a == parent + 1
        b == IF parent = 0 THEN Len(moved) ELSE MatchClose(moved, parent) - 1
    IN  SubSeq(moved, 1, a - 1) \o Normalize(SubSeq(moved, a, b)) \o SubSeq(moved, b + 1, Len(moved))

\* as removeHighlights, unwrapping the first marker found only
removeFirstHighlight(d, me) ==
    IF OwnMarkers(d, me) = {} THEN d ELSE Unwrap(d, Min(OwnMarkers(d, me)))

RECURSIVE removeHighlights(_, _)
removeHighlights(d, me) ==
    IF OwnMarkers(d, me) = {} THEN d
    ELSE removeHighlights(Unwrap(d, Min(OwnMarkers(d, me))), me)

(***************************************************************************)
(* binarySearch (part_001:17-35) with the comparator of                    *)
(* findTextMappingIndex (highlight.ts:261-271).  A mapping is              *)
(* [id, index, len]: the text node, its offset in the concatenated text    *)
(* and the node's present length (tm.node.length, read at each lookup).    *)
(***************************************************************************)
\* as the comparator, with the end of the range taken for a part of it
ComparatorInclusive(tm, pos) ==
    IF pos < tm.index THEN -1
    ELSE IF pos > tm.index + tm.len THEN 1
    ELSE 0

Comparator(tm, pos) ==
    IF pos < tm.index THEN -1
    ELSE IF pos >= tm.index + tm.len THEN 1
    ELSE 0

RECURSIVE binarySearch(_, _, _, _)
binarySearch(array, pos, left, right) ==
    IF left > right THEN -1
    ELSE LET mid == (left + right) \div 2
             comparison == Comparator(array[mid + 1], pos)
         IN  IF comparison < 0 THEN binarySearch(array, pos, left, mid - 1)
             ELSE IF comparison > 0 THEN binarySearch(array, pos, mid + 1, right)
             ELSE mid

findTextMappingIndex(textMappings, pos) ==
    binarySearch(textMappings, pos, 0, Len(textMappings) - 1)

(***************************************************************************)
(* wrapRangeDeep (highlight.ts:215-259).                                   *)
(***************************************************************************)
WithId(it, id) == [it EXCEPT !.id = id]

\* where the text node id is in the document; 0 when it has no parent
PosOf(d, id) == IF \E p \in DOMAIN d : d[p].id = id THEN CHOOSE p \in DOMAIN d : d[p].id = id ELSE 0

ReplaceAt(d, p, items) == SubSeq(d, 1, p - 1) \o items \o SubSeq(d, p + 1, Len(d))

\* startNode.splitText(off), and the part split off replaced by its wrapped copy
WrapTail(d, id, off, me) ==
    LET p == PosOf(d, id)
    IN  IF p = 0 THEN d
        ELSE ReplaceAt(d, p, <<WithId(Txt(Slice(d[p].v, 0, off)), id), wrapNode(me),
                                Txt(Slice(d[p].v, off, Len(d[p].v))), Close>>)

\* endNode.splitText(off), and endNode replaced by its wrapped copy
WrapHead(d, id, off, me) ==
    LET p == PosOf(d, id)
    IN  IF p = 0 THEN d
        ELSE ReplaceAt(d, p, <<wrapNode(me), Txt(Slice(d[p].v, 0, off)), Close,
                                Txt(Slice(d[p].v, off, Len(d[p].v)))>>)

\* the nodes of the mappings i .. j - 1 (0-based), each replaced by its wrapped copy
RECURSIVE WrapWhole(_, _, _, _, _)
WrapWhole(d, textMappings, i, j, me) ==
    IF i >= j THEN d
    ELSE LET p == PosOf(d, textMappings[i + 1].id)
         IN  WrapWhole(IF p = 0 THEN d
                       ELSE ReplaceAt(d, p, <<wrapNode(me), Txt(d[p].v), Close>>),
                       textMappings, i + 1, j, me)

\* startNode.splitText(a); remainingNode.splitText(b - a); the middle wrapped
WrapSlice(d, id, a, b, me) ==
    LET p == PosOf(d, id)
    IN  IF p = 0 THEN d
        ELSE ReplaceAt(d, p, <<WithId(Txt(Slice(d[p].v, 0, a)), id), wrapNode(me),
                                Txt(Slice(d[p].v, a, b)), Close,
                                Txt(Slice(d[p].v, b, Len(d[p].v)))>>)

\* the body of wrapRangeDeep from line 224 on, the two lookups done
WrapBetween(d, textMappings, startIndex, endIndex, startMappingIndex, endMappingIndex, me) ==
    IF startMappingIndex = -1 \/ endMappingIndex = -1
    THEN [doc |-> d, maps |-> textMappings]
    ELSE
      LET startTextMapping == textMappings[startMappingIndex + 1]
          endTextMapping == textMappings[endMappingIndex + 1]
          startOffsetInNode == startIndex - startTextMapping.index
          endOffsetInNode == endIndex - endTextMapping.index
      IN  IF startMappingIndex # endMappingIndex
          THEN [doc |-> WrapWhole(
                           WrapHead(WrapTail(d, startTextMapping.id, startOffsetInNode, me),
                                    endTextMapping.id, endOffsetInNode + 1, me),
                           textMappings, startMappingIndex + 1, endMappingIndex, me),
                maps |-> [textMappings EXCEPT
                            ![startMappingIndex + 1].len = startOffsetInNode,
                            ![endMappingIndex + 1].len = endOffsetInNode + 1]]
          ELSE [doc |-> WrapSlice(d, startTextMapping.id, startOffsetInNode,
                                  endOffsetInNode + 1, me),
                maps |-> [textMappings EXCEPT
                            ![startMappingIndex + 1].len = startOffsetInNode]]

wrapRangeDeep(d, textMappings, startIndex, endIndex, me) ==
    WrapBetween(d, textMappings, startIndex, endIndex,
                findTextMappingIndex(textMappings, startIndex),
                findTextMappingIndex(textMappings, endIndex), me)

(***************************************************************************)
(* searchAndHighlightDeep (highlight.ts:173-210): deep mode.               *)
(***************************************************************************)
\* the TextMapping list of the element opened at c: one entry per accepted
\* leaf, in document order; the leaf with ordinal k is named k
BuildMappings(d, c) ==
    LET leaves == SortedSeq(AcceptedLeaves(d, c))
    IN  [k \in DOMAIN leaves |->
            [id |-> k,
             index |-> Len(TextOfItems([j \in 1 .. (k - 1) |-> d[leaves[j]]])),
             len |-> Len(d[leaves[k]].v)]]

Labelled(d, c) ==
    LET leaves == AcceptedLeaves(d, c)
    IN  [q \in DOMAIN d |->
            IF q \in leaves THEN WithId(d[q], Cardinality({r \in leaves : r <= q})) ELSE d[q]]

Unlabelled(d) == [q \in DOMAIN d |-> WithId(d[q], 0)]

\* the loop while ((match = regex.exec(element.textContent)) !== null).
\* An iteration that finds a match and leaves lastIndex, the tree and the
\* mappings as they were is repeated for ever: hung.  spans are the
\* [startIndex, startIndex + length) of the matches found so far.
RECURSIVE MatchLoop(_, _, _, _, _, _, _)
\* the end of an iteration: r is what exec returned, w what wrapRangeDeep did
NextIteration(d, c, textMappings, re, lastIndex, found, me, r, w) ==
    IF r.lastIndex = lastIndex /\ w.doc = d /\ w.maps = textMappings
    THEN [doc |-> d, hung |-> TRUE, spans |-> found]
    ELSE MatchLoop(w.doc, c, w.maps, re, r.lastIndex, found, me)

\* the test of the loop and its body: r is what exec returned
Iteration(d, c, textMappings, re, lastIndex, spans, me, r) ==
    IF ~r.m.found THEN [doc |-> d, hung |-> FALSE, spans |-> spans]
    ELSE NextIteration(d, c, textMappings, re, lastIndex,
                       Append(spans, <<r.m.index, r.m.index + r.m.len>>), me, r,
                       wrapRangeDeep(d, textMappings, r.m.index, r.m.index + r.m.len - 1, me))

MatchLoop(d, c, textMappings, re, lastIndex, spans, me) ==
    Iteration(d, c, textMappings, re, lastIndex, spans, me,
              RegExpExec(re, TextContent(d, c), lastIndex))

DeepPass(d, c, re, me) ==
    IF TextContent(d, c) = <<>> THEN [doc |-> d, hung |-> FALSE, spans |-> <<>>]
    ELSE MatchLoop(Labelled(d, c), c, BuildMappings(d, c), re, 0, <<>>, me)

\* the references of the pass are dropped when it is over
Released(r) == [doc |-> Unlabelled(r.doc), hung |-> r.hung]

searchAndHighlightDeep(d, c, re, me) == Released(DeepPass(d, c, re, me))

(***************************************************************************)
(* buildMergedRegex (highlight.ts:124-137).  A pattern handed to           *)
(* highlight is a string, an array of strings or a RegExp object.          *)
(***************************************************************************)
StringPattern(term) == [kind |-> "string", terms |-> <<term>>, re |-> NullRegex]

ArrayPattern(terms) == [kind |-> "array", terms |-> terms, re |-> NullRegex]

RegExpPattern(src, g, i) == [kind |-> "regexp", terms |-> <<>>, re |-> NewRegExp(src, g, i)]

\* as buildMergedRegex, without the return for an empty list of terms
buildMergedRegexOfAnyList(pattern, me) ==
    IF pattern.kind = "regexp" THEN pattern.re
    ELSE LET terms == pattern.terms
             alternation == Join([k \in DOMAIN terms |-> escapeRegExp(terms[k])])
         IN  NewRegExp(<<"(">> \o alternation \o <<")">>, TRUE, ~insts[me].caseSensitive)

buildMergedRegex(pattern, me) ==
    IF pattern.kind = "regexp" THEN pattern.re
    ELSE LET terms == pattern.terms
             alternation == Join([k \in DOMAIN terms |-> escapeRegExp(terms[k])])
         IN  IF Len(terms) = 0 THEN NullRegex
             ELSE NewRegExp(<<"(">> \o alternation \o <<")">>, TRUE, ~insts[me].caseSensitive)

(***************************************************************************)
(* highlight (highlight.ts:73-88): the document it leaves, and whether it  *)
(* returns at all.                                                         *)
(***************************************************************************)
\* containers.forEach from the k-th container on; a pass neither adds nor
\* removes a container, so the k-th container of d is the k-th of the list
RECURSIVE ForEachContainer(_, _, _, _)
\* r is what the pass over the k-th container has left
NextContainer(k, re, me, r) ==
    IF r.hung THEN r ELSE ForEachContainer(r.doc, k + 1, re, me)

\* the callback of containers.forEach on the element opened at c
OnContainer(d, c, re, me) ==
    IF insts[me].deepSearch
    THEN searchAndHighlightDeep(d, c, re, me)
    ELSE [doc |-> searchAndHighlight(d, c, re, me), hung |-> FALSE]

ForEachContainer(d, k, re, me) ==
    IF k > Len(Containers(d, me)) THEN [doc |-> d, hung |-> FALSE]
    ELSE NextContainer(k, re, me, OnContainer(d, Containers(d, me)[k], re, me))

\* when new RegExp raises in buildMergedRegex, highlight raises before it
\* has touched the document
highlight(d, me, pattern) ==
    LET mergedRegex == buildMergedRegex(pattern, me)
    IN  IF mergedRegex.null \/ mergedRegex.error THEN [doc |-> d, hung |-> FALSE]
        ELSE ForEachContainer(d, 1, mergedRegex, me)

(***************************************************************************)
(* The documents and the patterns of the model.                            *)
(***************************************************************************)
Container == Open("div", DefaultContainerClass)

sTest == <<"t", "e", "s", "t">>

sThisIsATest == <<"T", "h", "i", "s", " ", "i", "s", " ", "a", " ", "t", "e", "s", "t", ".">>

sHelloWorld == <<"H", "e", "l", "l", "o", " ", "W", "o", "r", "l", "d", "!", " ", "h", "e", "l", "l", "o">>

sHello == <<"h", "e", "l", "l", "o">>

\* <div class="highlightable">This is a test.</div>
DocTest == <<Container, Txt(sThisIsATest), Close>>

\* <div class="highlightable">Hello World! hello</div>
DocHello == <<Container, Txt(sHelloWorld), Close>>

\* <div class="highlightable"> <b>te</b>st test</div>
DocSplit == <<Container, Txt(<<" ">>), Open("b", NoClass), Txt(<<"t", "e">>), Close,
              Txt(<<"s", "t", " ", "t", "e", "s", "t">>), Close>>

\* <p class="highlightable" contenteditable="true">
Editable == [Open("p", DefaultContainerClass) EXCEPT !.editable = TRUE]

\* <div class="highlightable">test</div>
\* <div class="highlightable">a<p class="highlightable" contenteditable="true">test</p></div>
DocTwo == <<Container, Txt(sTest), Close,
            Container, Txt(<<"a">>), Editable, Txt(sTest), Close, Close>>

Docs == {DocTest, DocHello, DocSplit, DocTwo}

Patterns ==
    << StringPattern(sTest),
       StringPattern(<<"e", "s">>),
       StringPattern(sHello),
       StringPattern(<<>>),
       ArrayPattern(<<>>),
       ArrayPattern(<<sTest, <<"a">>>>),
       RegExpPattern(<<"t", "e", "s", "t", "|", "h", "e", "l", "l", "o">>, TRUE, TRUE),
       RegExpPattern(<<"(", "t", "e", "s", "t", ")">>, FALSE, TRUE) >>

(***************************************************************************)
(* The state machine.                                                      *)
(***************************************************************************)
\* op was called on instance i; it created or unwrapped n markers; early:
\* highlight returned at once because buildMergedRegex gave it no pattern
Call(op, i, n, early) == [op |-> op, i |-> i, n |-> n, early |-> early]

Init ==
    /\ doc \in Docs
    /\ insts = <<>>
    /\ highlighterIdCounter = 0
    /\ sheet = <<>>
    /\ hung = FALSE
    /\ last = Call("init", 0, 0, FALSE)

\* a rule keyed by the marker class alone
StyleRuleByClass(className, instanceId) == [cls |-> className, inst |-> -1]

\* the selector and the owner of the rule applyCustomStyles inserts
StyleRule(className, instanceId) == [cls |-> className, inst |-> instanceId]

\* as the constructor, reading the counter without incrementing it
ConstructWithoutIncrement(deepSearch, customStyles, caseSensitive) ==
    /\ ~hung
    /\ Len(insts) < MaxInstances
    /\ insts' = Append(insts, [instanceId |-> highlighterIdCounter,
                               className |-> DefaultClassName,
                               caseSensitive |-> caseSensitive,
                               deepSearch |-> deepSearch,
                               customStyles |-> customStyles])
    /\ sheet' = IF customStyles
                THEN Append(sheet, StyleRule(DefaultClassName, highlighterIdCounter))
                ELSE sheet
    /\ last' = Call("construct", Len(insts) + 1, 0, FALSE)
    /\ UNCHANGED <<doc, hung, highlighterIdCounter>>

\* constructor (highlight.ts:67-71) with applyCustomStyles (highlight.ts:108-122)
Construct(deepSearch, customStyles, caseSensitive) ==
    /\ ~hung
    /\ Len(insts) < MaxInstances
    /\ insts' = Append(insts, [instanceId |-> highlighterIdCounter,
                               className |-> DefaultClassName,
                               caseSensitive |-> caseSensitive,
                               deepSearch |-> deepSearch,
                               customStyles |-> customStyles])
    /\ highlighterIdCounter' = highlighterIdCounter + 1
    /\ sheet' = IF customStyles
                THEN Append(sheet, StyleRule(DefaultClassName, highlighterIdCounter))
                ELSE sheet
    /\ last' = Call("construct", Len(insts) + 1, 0, FALSE)
    /\ UNCHANGED <<doc, hung>>

Highlight(me, pattern) ==
    /\ ~hung
    /\ MarkerCount(doc) < MaxMarkers
    /\ \E r \in {highlight(doc, me, pattern)} :
           /\ doc' = r.doc
           /\ hung' = r.hung
           /\ last' = Call("highlight", me, MarkerCount(r.doc) - MarkerCount(doc),
                           buildMergedRegex(pattern, me).null)
    /\ UNCHANGED <<insts, highlighterIdCounter, sheet>>

RemoveHighlights(me) ==
    /\ ~hung
    /\ doc' = removeHighlights(doc, me)
    /\ last' = Call("removeHighlights", me, Cardinality(OwnMarkers(doc, me)), FALSE)
    /\ UNCHANGED <<insts, highlighterIdCounter, sheet, hung>>

Next ==
    \/ \E deepSearch \in BOOLEAN : Construct(deepSearch, FALSE, FALSE)
    \/ \E me \in DOMAIN insts, pat \in DOMAIN Patterns : Highlight(me, Patterns[pat])
    \/ \E me \in DOMAIN insts : RemoveHighlights(me)

Spec == Init /\ [][Next]_vars

(***************************************************************************)
(* The same class with instances that ask for custom styles and for case   *)
(* sensitivity, on text and terms that hold the characters escapeRegExp    *)
(* escapes.                                                                *)
(***************************************************************************)
sMeta == <<"a", ".", "b", "*", "c">>

sMetaText == <<"A", ".", "b", "*", "c", " ", "a", "x", "b", "c", " ", "a", ".", "b", "*", "c">>

sAlt == <<"(", "a", "|", "x", ")">>

sAltText == <<"a", " ", "(", "a", "|", "x", ")", " ", "x", " ", "(">>

\* <div class="highlightable">A.b*c axbc a.b*c</div>
DocMeta == <<Container, Txt(sMetaText), Close>>

\* <div class="highlightable">a (a|x) x (</div>
DocAlt == <<Container, Txt(sAltText), Close>>

MetaDocs == {DocMeta, DocAlt}

MetaPatterns ==
    << StringPattern(sMeta),
       StringPattern(sAlt),
       StringPattern(<<"(">>),
       ArrayPattern(<<<<"x", ")">>, <<".", "b">>>>),
       StringPattern(<<"*">>) >>

InitS ==
    /\ doc \in MetaDocs
    /\ insts = <<>>
    /\ highlighterIdCounter = 0
    /\ sheet = <<>>
    /\ hung = FALSE
    /\ last = Call("init", 0, 0, FALSE)

NextS ==
    \/ \E customStyles, caseSensitive \in BOOLEAN : Construct(FALSE, customStyles, caseSensitive)
    \/ \E me \in DOMAIN insts, pat \in DOMAIN MetaPatterns : Highlight(me, MetaPatterns[pat])
    \/ \E me \in DOMAIN insts : RemoveHighlights(me)

SpecS == InitS /\ [][NextS]_vars

(***************************************************************************)
(* The first version of the class (part_000).  Its constructor takes the   *)
(* search terms and gives the instance a marker class of its own,          *)
(* `${className}-${counter}`; there is no instance attribute and no deep   *)
(* mode.  An instance is [className, caseSensitive, searchTerms,           *)
(* customStyles].                                                          *)
(***************************************************************************)
\* as UniqueClassName, without the counter
SharedClassName(n) == DefaultClassName

\* `${this.options.className}-${Highlighter.highlighterIdCounter++}` (part_000:43)
UniqueClassName(n) == Class(DefaultClassName.name, n)

\* getSearchRegexes (part_000:101-106): one pattern for each term
getSearchRegexes(me) ==
    LET terms == insts[me].searchTerms
    IN  [k \in DOMAIN terms |->
            NewRegExp(<<"(">> \o escapeRegExp(terms[k]) \o <<")">>, TRUE, ~insts[me].caseSensitive)]

\* the template of part_000:138-141
MarkerTemplate0(me) ==
    [k |-> "open", v |-> <<>>, tag |-> DefaultTagName, cls |-> insts[me].className,
     inst |-> -1, by |-> me, id |-> 0, editable |-> FALSE]

\* searchAndHighlight (part_000:114-151): the walker accepts every text
\* node, and a node without text is passed over
searchAndHighlight0(d, c, re, me) ==
    LET textNodes == {q \in (c + 1) .. (MatchClose(d, c) - 1) :
                         IsText(d[q]) /\ d[q].v # <<>> /\ HasMatch(re, d[q].v)}
    IN  Flatten([q \in DOMAIN d |->
                    IF q \in textNodes
                    THEN Substitute(d[q].v, re, ReplaceMatches(re, d[q].v), 0, MarkerTemplate0(me))
                    ELSE <<d[q]>>])

\* highlightElement (part_000:108-112) on the k-th container, from the
\* j-th pattern on
RECURSIVE highlightElement(_, _, _, _, _)
highlightElement(d, k, regexes, j, me) ==
    IF j > Len(regexes) THEN d
    ELSE highlightElement(searchAndHighlight0(d, Containers(d, me)[k], regexes[j], me),
                          k, regexes, j + 1, me)

\* containers.forEach of highlight (part_000:48-61), from the k-th on
RECURSIVE ForEachContainer0(_, _, _, _)
ForEachContainer0(d, k, regexes, me) ==
    IF k > Len(Containers(d, me)) THEN d
    ELSE ForEachContainer0(highlightElement(d, k, regexes, 1, me), k + 1, regexes, me)

highlight0(d, me) == ForEachContainer0(d, 1, getSearchRegexes(me), me)

\* document.querySelectorAll(`.${this.options.className}`) (part_000:64)
OwnMarkers0(d, me) == {p \in DOMAIN d : d[p].k = "open" /\ d[p].cls = insts[me].className}

\* removeHighlights (part_000:63-77)
RECURSIVE removeHighlights0(_, _)
removeHighlights0(d, me) ==
    IF OwnMarkers0(d, me) = {} THEN d
    ELSE removeHighlights0(Unwrap(d, Min(OwnMarkers0(d, me))), me)

\* the elements of d that a highlight call has created
Created(d) == {p \in DOMAIN d : d[p].k = "open" /\ d[p].by # -1}

\* the lists of search terms an instance is constructed with
TermLists == {<<sTest>>, <<sHello>>, <<sTest, <<"e", "s">>>>}

Init0 ==
    /\ doc \in Docs
    /\ insts = <<>>
    /\ highlighterIdCounter = 0
    /\ sheet = <<>>
    /\ hung = FALSE
    /\ last = Call("init", 0, 0, FALSE)

\* constructor (part_000:41-46) with applyCustomStyles (part_000:85-99)
Construct0(searchTerms, customStyles) ==
    /\ Len(insts) < MaxInstances
    /\ insts' = Append(insts, [className |-> UniqueClassName(highlighterIdCounter),
                               caseSensitive |-> FALSE,
                               searchTerms |-> searchTerms,
                               customStyles |-> customStyles])
    /\ highlighterIdCounter' = highlighterIdCounter + 1
    /\ sheet' = IF customStyles
                THEN Append(sheet, StyleRule(UniqueClassName(highlighterIdCounter), -1))
                ELSE sheet
    /\ last' = Call("construct", Len(insts) + 1, 0, FALSE)
    /\ UNCHANGED <<doc, hung>>

\* highlight (part_000:48-61)
Highlight0(me) ==
    /\ Cardinality(Created(doc)) < MaxMarkers
    /\ \E marked \in {highlight0(doc, me)} :
           /\ doc' = marked
           /\ last' = Call("highlight", me,
                           Cardinality(Created(marked)) - Cardinality(Created(doc)), FALSE)
    /\ UNCHANGED <<insts, highlighterIdCounter, sheet, hung>>

\* removeHighlights (part_000:63-77)
RemoveHighlights0(me) ==
    /\ doc' = removeHighlights0(doc, me)
    /\ last' = Call("removeHighlights", me, Cardinality(OwnMarkers0(doc, me)), FALSE)
    /\ UNCHANGED <<insts, highlighterIdCounter, sheet, hung>>

\* updateSearchTerms (part_000:79-83): removeHighlights, the new terms,
\* highlight
UpdateSearchTerms0(me, newSearchTerms) ==
    /\ Cardinality(Created(doc)) < MaxMarkers
    /\ insts' = [insts EXCEPT ![me].searchTerms = newSearchTerms]
    /\ doc' = ForEachContainer0(removeHighlights0(doc, me), 1,
                                [k \in DOMAIN newSearchTerms |->
                                    NewRegExp(<<"(">> \o escapeRegExp(newSearchTerms[k]) \o <<")">>,
                                              TRUE, ~insts[me].caseSensitive)], me)
    /\ last' = Call("updateSearchTerms", me, 0, FALSE)
    /\ UNCHANGED <<highlighterIdCounter, sheet, hung>>

Next0 ==
    \/ \E searchTerms \in TermLists, customStyles \in BOOLEAN : Construct0(searchTerms, customStyles)
    \/ \E me \in DOMAIN insts : Highlight0(me)
    \/ \E me \in DOMAIN insts : RemoveHighlights0(me)
    \/ \E me \in DOMAIN insts, newSearchTerms \in TermLists : UpdateSearchTerms0(me, newSearchTerms)

Spec0 == Init0 /\ [][Next0]_vars

(***************************************************************************)
(* The deep mode with the "already highlighted" guard (the second class    *)
(* of highlight.ts, lines 342-638).  Its constructor takes the search      *)
(* terms; an instance is [instanceId, className, caseSensitive,            *)
(* searchTerms, deepSearch, customStyles].  highlight runs one pattern     *)
(* for each term; removeHighlights selects by the class alone.  A deep     *)
(* pass returns [doc, hung, threw]: threw when a Range method raised       *)
(* IndexSizeError, which ends the highlight call where it stands.          *)
(***************************************************************************)
\* getSearchRegexes (highlight.ts:425-430): one pattern for each term
getSearchRegexesG(me) ==
    LET terms == insts[me].searchTerms
    IN  [k \in DOMAIN terms |->
            NewRegExp(<<"(">> \o escapeRegExp(terms[k]) \o <<")">>, TRUE, ~insts[me].caseSensitive)]

\* the shallow mode (highlight.ts:442-473) is that of lines 139-171
searchAndHighlightG(d, c, re, me) == searchAndHighlight(d, c, re, me)

\* 'highlight-text-2', the class isHighlighted looks for (highlight.ts:512)
HighlightedClass == Class("highlight-text", 2)

\* combinedText: the values of the accepted leaves, one after the other
CombinedText(d, c) ==
    LET leaves == SortedSeq(AcceptedLeaves(d, c))
    IN  TextOfItems([k \in DOMAIN leaves |-> d[leaves[k]]])

\* the TextMapping list (highlight.ts:492-524): the leaf with ordinal k is
\* named k; globalStart and globalEnd are fixed when the list is built
BuildMappingsG(d, c) ==
    LET leaves == SortedSeq(AcceptedLeaves(d, c))
    IN  [k \in DOMAIN leaves |->
            [id |-> k,
             globalStart |-> Len(TextOfItems([j \in 1 .. (k - 1) |-> d[leaves[j]]])),
             globalEnd |-> Len(TextOfItems([j \in 1 .. k |-> d[leaves[j]]])),
             isHighlighted |-> d[ParentOpen(d, leaves[k])].cls = HighlightedClass]]

\* what the loop of wrapRangeDeep (highlight.ts:563-587) ends with
Returned == [returned |-> TRUE, startMapping |-> -1, endMapping |-> -1,
             startOffsetInNode |-> 0, endOffsetInNode |-> 0]

\* the loop from i on (0-based); startMapping and startOffsetInNode as the
\* earlier iterations have left them
RECURSIVE FindMappings(_, _, _, _, _, _)
FindMappings(textMappings, startIndex, endIndex, i, startMapping, startOffsetInNode) ==
    IF i >= Len(textMappings)
    THEN [returned |-> FALSE, startMapping |-> startMapping, endMapping |-> -1,
          startOffsetInNode |-> startOffsetInNode, endOffsetInNode |-> 0]
    ELSE LET tm == textMappings[i + 1]
             atStart == startIndex >= tm.globalStart /\ startIndex < tm.globalEnd
             atEnd == endIndex > tm.globalStart /\ endIndex <= tm.globalEnd
             sm == IF atStart THEN i ELSE startMapping
             so == IF atStart THEN startIndex - tm.globalStart ELSE startOffsetInNode
         IN  IF atStart /\ tm.isHighlighted /\ startIndex # tm.globalStart THEN Returned
             ELSE IF atEnd /\ tm.isHighlighted /\ endIndex # tm.globalEnd THEN Returned
             ELSE IF atEnd
             THEN [returned |-> FALSE, startMapping |-> sm, endMapping |-> i,
                   startOffsetInNode |-> so, endOffsetInNode |-> endIndex - tm.globalStart]
             ELSE FindMappings(textMappings, startIndex, endIndex, i + 1, sm, so)

\* wrapper (highlight.ts:603-605)
Wrapper(me) ==
    [k |-> "open", v |-> <<>>, tag |-> DefaultTagName, cls |-> insts[me].className,
     inst |-> insts[me].instanceId, by |-> me, id |-> 0, editable |-> FALSE]

\* the closing items of s that close an element opened before s, and the
\* opening items of s whose element is closed after s
UnmatchedCloses(s) ==
    LET bal(k) == Cardinality({j \in 1 .. k : s[j].k = "open"})
                  - Cardinality({j \in 1 .. k : s[j].k = "close"})
    IN  {k \in DOMAIN s : s[k].k = "close" /\ \A j \in 0 .. (k - 1) : bal(j) > bal(k)}

UnmatchedOpens(s) ==
    LET bal(k) == Cardinality({j \in 1 .. k : s[j].k = "open"})
                  - Cardinality({j \in 1 .. k : s[j].k = "close"})
    IN  {k \in DOMAIN s : s[k].k = "open" /\ \A j \in k .. Len(s) : bal(j) >= bal(k)}

\* the n nearest ancestors of the node at p, the outermost first
RECURSIVE Ancestors(_, _, _)
Ancestors(d, p, n) ==
    IF n = 0 THEN <<>> ELSE Ancestors(d, ParentOpen(d, p), n - 1) \o <<d[ParentOpen(d, p)]>>

\* range.setStart(startNode, a); range.setEnd(endNode, b);
\* range.extractContents(); wrapper.appendChild(extractedContents);
\* range.insertNode(wrapper) (highlight.ts:597-608), the nodes being at ps
\* and pe.  Within one text node its data from a to b is taken out and the
\* node is split at a for the wrapper.  Across nodes the start node keeps
\* its head and the end node its tail, the nodes between them move, the
\* elements that hold only one of the two ends are cloned around what
\* leaves them, and the wrapper follows the start node's side.
ExtractAndInsert(d, ps, a, pe, b, me) ==
    IF ps = pe
    THEN ReplaceAt(d, ps, <<WithId(Txt(Slice(d[ps].v, 0, a)), d[ps].id), Wrapper(me),
                            Txt(Slice(d[ps].v, a, b)), Close,
                            Txt(Slice(d[ps].v, b, Len(d[ps].v)))>>)
    ELSE LET between == SubSeq(d, ps + 1, pe - 1)
             closes == Cardinality(UnmatchedCloses(between))
             opens == SortedSeq(UnmatchedOpens(between))
         IN  SubSeq(d, 1, ps - 1)
             \o <<WithId(Txt(Slice(d[ps].v, 0, a)), d[ps].id)>>
             \o [k \in 1 .. closes |-> Close]
             \o <<Wrapper(me)>>
             \o Ancestors(d, ps, closes)
             \o <<Txt(Slice(d[ps].v, a, Len(d[ps].v)))>>
             \o between
             \o <<Txt(Slice(d[pe].v, 0, b))>>
             \o [k \in DOMAIN opens |-> Close]
             \o <<Close>>
             \o [k \in DOMAIN opens |-> between[opens[k]]]
             \o <<WithId(Txt(Slice(d[pe].v, b, Len(d[pe].v))), d[pe].id)>>
             \o SubSeq(d, pe + 1, Len(d))

\* wrapRangeDeep from line 589 on: f is what the loop has found.  setStart
\* and setEnd raise IndexSizeError for an offset beyond the node's present
\* length
WrapFound(d, textMappings, f, me) ==
    IF f.returned \/ f.startMapping = -1 \/ f.endMapping = -1
    THEN [doc |-> d, threw |-> FALSE]
    ELSE LET ps == PosOf(d, textMappings[f.startMapping + 1].id)
             pe == PosOf(d, textMappings[f.endMapping + 1].id)
         IN  IF f.startOffsetInNode > Len(d[ps].v) \/ f.endOffsetInNode > Len(d[pe].v)
             THEN [doc |-> d, threw |-> TRUE]
             ELSE [doc |-> ExtractAndInsert(d, ps, f.startOffsetInNode, pe, f.endOffsetInNode, me),
                   threw |-> FALSE]

\* wrapRangeDeep (highlight.ts:547-609); endIndex is exclusive here
wrapRangeDeepG(d, textMappings, startIndex, endIndex, me) ==
    WrapFound(d, textMappings, FindMappings(textMappings, startIndex, endIndex, 0, -1, 0), me)

\* the loop while ((match = regex.exec(combinedText)) !== null)
\* (highlight.ts:528-541)
RECURSIVE MatchLoopG(_, _, _, _, _, _)
\* the end of an iteration: r is what exec returned, w what wrapRangeDeep did
NextIterationG(d, textMappings, combinedText, re, lastIndex, me, r, w) ==
    IF w.threw THEN [doc |-> d, hung |-> FALSE, threw |-> TRUE]
    ELSE IF r.lastIndex = lastIndex /\ w.doc = d THEN [doc |-> d, hung |-> TRUE, threw |-> FALSE]
    ELSE MatchLoopG(w.doc, textMappings, combinedText, re, r.lastIndex, me)

IterationG(d, textMappings, combinedText, re, lastIndex, me, r) ==
    IF ~r.m.found THEN [doc |-> d, hung |-> FALSE, threw |-> FALSE]
    ELSE NextIterationG(d, textMappings, combinedText, re, lastIndex, me, r,
                        wrapRangeDeepG(d, textMappings, r.m.index, r.m.index + r.m.len, me))

MatchLoopG(d, textMappings, combinedText, re, lastIndex, me) ==
    IterationG(d, textMappings, combinedText, re, lastIndex, me,
               RegExpExec(re, combinedText, lastIndex))

\* the references of the pass are dropped when it is over
ReleasedG(r) == [doc |-> Unlabelled(r.doc), hung |-> r.hung, threw |-> r.threw]

\* searchAndHighlightDeep (highlight.ts:483-542)
searchAndHighlightDeepG(d, c, re, me) ==
    ReleasedG(MatchLoopG(Labelled(d, c), BuildMappingsG(d, c), CombinedText(d, c), re, 0, me))

\* highlightElement (highlight.ts:432-440) on the k-th container, from the
\* j-th pattern on
RECURSIVE highlightElementG(_, _, _, _, _)
NextRegexG(k, regexes, j, me, r) ==
    IF r.hung \/ r.threw THEN r ELSE highlightElementG(r.doc, k, regexes, j + 1, me)

OnRegexG(d, c, re, me) ==
    IF insts[me].deepSearch
    THEN searchAndHighlightDeepG(d, c, re, me)
    ELSE [doc |-> searchAndHighlightG(d, c, re, me), hung |-> FALSE, threw |-> FALSE]

highlightElementG(d, k, regexes, j, me) ==
    IF j > Len(regexes) THEN [doc |-> d, hung |-> FALSE, threw |-> FALSE]
    ELSE NextRegexG(k, regexes, j, me, OnRegexG(d, Containers(d, me)[k], regexes[j], me))

\* containers.forEach of highlight (highlight.ts:379-381), from the k-th
\* on; no container of the model's documents is cloned, so that the k-th
\* container of d is the k-th of the list
RECURSIVE ForEachContainerG(_, _, _, _)
NextContainerG(k, regexes, me, r) ==
    IF r.hung \/ r.threw THEN r ELSE ForEachContainerG(r.doc, k + 1, regexes, me)

ForEachContainerG(d, k, regexes, me) ==
    IF k > Len(Containers(d, me)) THEN [doc |-> d, hung |-> FALSE, threw |-> FALSE]
    ELSE NextContainerG(k, regexes, me, highlightElementG(d, k, regexes, 1, me))

highlightG(d, regexes, me) == ForEachContainerG(d, 1, regexes, me)

\* document.querySelectorAll(`.${this.options.className}`) (highlight.ts:388)
OwnMarkersG(d, me) == {p \in DOMAIN d : d[p].k = "open" /\ d[p].cls = insts[me].className}

\* removeHighlights (highlight.ts:387-401)
RECURSIVE removeHighlightsG(_, _)
removeHighlightsG(d, me) ==
    IF OwnMarkersG(d, me) = {} THEN d
    ELSE removeHighlightsG(Unwrap(d, Min(OwnMarkersG(d, me))), me)

sAT == <<"a", " ", "t">>

\* the lists of search terms an instance is constructed with
TermListsG == {<<sTest>>, <<sTest, sAT>>}

\* the values of options.className
ClassNamesG == {DefaultClassName, HighlightedClass}

\* <div class="highlightable">test test</div>
DocTestTest == <<Container, Txt(sTest \o <<" ">> \o sTest), Close>>

InitG ==
    /\ doc \in {DocTest, DocTestTest}
    /\ insts = <<>>
    /\ highlighterIdCounter = 0
    /\ sheet = <<>>
    /\ hung = FALSE
    /\ last = Call("init", 0, 0, FALSE)

\* constructor (highlight.ts:365-370)
ConstructG(searchTerms, className, deepSearch) ==
    /\ ~hung
    /\ Len(insts) < MaxInstances
    /\ insts' = Append(insts, [instanceId |-> highlighterIdCounter,
                               className |-> className,
                               caseSensitive |-> FALSE,
                               searchTerms |-> searchTerms,
                               deepSearch |-> deepSearch,
                               customStyles |-> FALSE])
    /\ highlighterIdCounter' = highlighterIdCounter + 1
    /\ last' = Call("construct", Len(insts) + 1, 0, FALSE)
    /\ UNCHANGED <<doc, sheet, hung>>

\* highlight (highlight.ts:372-385); early: the call ended with an exception
HighlightG(me) ==
    /\ ~hung
    /\ MarkerCount(doc) < MaxMarkers
    /\ \E r \in {highlightG(doc, getSearchRegexesG(me), me)} :
           /\ doc' = r.doc
           /\ hung' = r.hung
           /\ last' = Call("highlight", me, MarkerCount(r.doc) - MarkerCount(doc), r.threw)
    /\ UNCHANGED <<insts, highlighterIdCounter, sheet>>

\* removeHighlights (highlight.ts:387-401)
RemoveHighlightsG(me) ==
    /\ ~hung
    /\ doc' = removeHighlightsG(doc, me)
    /\ last' = Call("removeHighlights", me, Cardinality(OwnMarkersG(doc, me)), FALSE)
    /\ UNCHANGED <<insts, highlighterIdCounter, sheet, hung>>

\* updateSearchTerms (highlight.ts:403-407): removeHighlights, the new
\* terms, highlight
UpdateSearchTermsG(me, newSearchTerms) ==
    /\ ~hung
    /\ MarkerCount(doc) < MaxMarkers
    /\ insts' = [insts EXCEPT ![me].searchTerms = newSearchTerms]
    /\ \E r \in {highlightG(removeHighlightsG(doc, me),
                            [k \in DOMAIN newSearchTerms |->
                                NewRegExp(<<"(">> \o escapeRegExp(newSearchTerms[k]) \o <<")">>,
                                          TRUE, ~insts[me].caseSensitive)], me)} :
           /\ doc' = r.doc
           /\ hung' = r.hung
           /\ last' = Call("updateSearchTerms", me, 0, r.threw)
    /\ UNCHANGED <<highlighterIdCounter, sheet>>

NextG ==
    \/ \E searchTerms \in TermListsG, className \in ClassNamesG, deepSearch \in BOOLEAN :
           ConstructG(searchTerms, className, deepSearch)
    \/ \E me \in DOMAIN insts : HighlightG(me)
    \/ \E me \in DOMAIN insts : RemoveHighlightsG(me)
    \/ \E me \in DOMAIN insts, newSearchTerms \in TermListsG : UpdateSearchTermsG(me, newSearchTerms)

SpecG == InitG /\ [][NextG]_vars

(***************************************************************************)
(* findTextMappingIndex by itself (highlight.ts:261-271, part_001:17-35).  *)
(* The state is the TextMapping list of a pass and the last lookup made    *)
(* in it: last is [op, textMappings, pos, result].  The list is built      *)
(* over leaves of any lengths as lines 188-197 build it, and splitText     *)
(* shortens the node of a mapping as lines 236, 240 and 253 do; the other  *)
(* variables are not used.                                                 *)
(***************************************************************************)
\* the lists of at most MaxMappings node lengths, each from 1 to MaxLength
RECURSIVE LengthLists(_)
LengthLists(n) ==
    IF n = 0 THEN {<<>>}
    ELSE LengthLists(n - 1)
         \cup {Append(ls, l) : ls \in {s \in LengthLists(n - 1) : Len(s) = n - 1},
                               l \in 1 .. MaxLength}

RECURSIVE SumTo(_, _)
SumTo(lengths, k) == IF k = 0 THEN 0 ELSE SumTo(lengths, k - 1) + lengths[k]

\* textMappings.push({node, index: globalIndex}); globalIndex += node.length
MappingsOver(lengths) ==
    [k \in DOMAIN lengths |-> [id |-> k, index |-> SumTo(lengths, k - 1), len |-> lengths[k]]]

Lookup(op, textMappings, pos, result) ==
    [op |-> op, textMappings |-> textMappings, pos |-> pos, result |-> result]

InitL ==
    /\ doc = <<>>
    /\ insts = <<>>
    /\ highlighterIdCounter = 0
    /\ sheet = <<>>
    /\ hung = FALSE
    /\ \E lengths \in LengthLists(MaxMappings) :
           last = Lookup("init", MappingsOver(lengths), 0, -1)

\* node.splitText(offset) on the node of the k-th mapping: the node keeps
\* its first offset characters
SplitTextL(k, offset) ==
    /\ offset <= last.textMappings[k].len
    /\ last' = Lookup("splitText", [last.textMappings EXCEPT ![k].len = offset], offset, -1)
    /\ UNCHANGED <<doc, insts, highlighterIdCounter, sheet, hung>>

\* this.findTextMappingIndex(textMappings, pos)
FindTextMappingIndexL(pos) ==
    /\ last' = Lookup("findTextMappingIndex", last.textMappings, pos,
                      findTextMappingIndex(last.textMappings, pos))
    /\ UNCHANGED <<doc, insts, highlighterIdCounter, sheet, hung>>

NextL ==
    \/ \E k \in DOMAIN last.textMappings, offset \in 0 .. MaxLength : SplitTextL(k, offset)
    \/ \E pos \in -1 .. (MaxMappings * MaxLength + 1) : FindTextMappingIndexL(pos)

SpecL == InitL /\ [][NextL]_vars

(***************************************************************************)
(* The class of lines 45-308 on a document in which a selected container   *)
(* lies inside another selected container.                                 *)
(***************************************************************************)
\* <div class="highlightable">a <div class="highlightable">test</div></div>
DocNested == <<Container, Txt(<<"a", " ">>), Container, Txt(sTest), Close, Close>>

InitN ==
    /\ doc = DocNested
    /\ insts = <<>>
    /\ highlighterIdCounter = 0
    /\ sheet = <<>>
    /\ hung = FALSE
    /\ last = Call("init", 0, 0, FALSE)

SpecN == InitN /\ [][Next]_vars

(***************************************************************************)
(* What the claims speak of.                                               *)
(***************************************************************************)
\* the text of the k-th container of d
ContainerText(d, me, k) == TextContent(d, Containers(d, me)[k])

\* the elements of d that the selector of instance me does not select, in
\* document order, each with its attribute, its creator and its text
OtherElements(d, me) ==
    LET ps == SortedSeq({p \in DOMAIN d : d[p].k = "open" /\ d[p].inst # insts[me].instanceId})
    IN  [k \in DOMAIN ps |->
            [tag |-> d[ps[k]].tag, cls |-> d[ps[k]].cls, inst |-> d[ps[k]].inst,
             by |-> d[ps[k]].by, text |-> TextContent(d, ps[k])]]

\* the markers that instance me created
CreatedBy(d, me) == {p \in DOMAIN d : d[p].k = "open" /\ d[p].by = me}

(* C1: character-count invariance.  After a highlight call that returns,   *)
(* every container holds as many text characters as before the call.       *)
C1_CharacterCountInvariance ==
    [][(last'.op = "highlight" /\ ~hung') =>
          \A k \in DOMAIN Containers(doc, last'.i) :
              Len(ContainerText(doc', last'.i, k)) = Len(ContainerText(doc, last'.i, k))]_vars

(* C2: scoped removal.  X.removeHighlights() leaves every element that is  *)
(* not a marker of X in place, with its owning-instance identifier and its *)
(* text; the markers of the other instances are among them.                *)
C2_ScopedRemoval ==
    [][last'.op = "removeHighlights" =>
          OtherElements(doc', last'.i) = OtherElements(doc, last'.i)]_vars

\* X.removeHighlights() has unwrapped a marker and a marker of another
\* instance is still in the document
C2_Witness ==
    /\ last.op = "removeHighlights"
    /\ last.n >= 1
    /\ \E p \in DOMAIN doc : IsMarker(doc[p]) /\ doc[p].by # last.i

(* C3: after X.removeHighlights() no marker of X is left in the document.  *)
C3_NoOwnMarkerLeft ==
    last.op = "removeHighlights" =>
        /\ OwnMarkers(doc, last.i) = {}
        /\ CreatedBy(doc, last.i) = {}

\* X.removeHighlights() has unwrapped several markers of X, and markers of
\* another instance are in the document
C3_Witness ==
    /\ last.op = "removeHighlights"
    /\ last.n >= 2
    /\ \E p \in DOMAIN doc : IsMarker(doc[p]) /\ doc[p].by # last.i

(* C7: every marker in the document carries an owning-instance identifier, *)
(* and it is the id of the instance whose highlight call created it.       *)
C7_MarkerOwner ==
    \A p \in DOMAIN doc :
        (doc[p].k = "open" /\ (doc[p].by # -1 \/ doc[p].inst # -1 \/ doc[p].cls = DefaultClassName)) =>
            /\ doc[p].by \in DOMAIN insts
            /\ doc[p].inst = insts[doc[p].by].instanceId

\* markers created by two instances, one in shallow and one in deep mode,
\* are in the document together
C7_Witness ==
    \E p, q \in DOMAIN doc :
        /\ IsMarker(doc[p]) /\ IsMarker(doc[q])
        /\ doc[p].by # doc[q].by
        /\ insts[doc[p].by].deepSearch /\ ~insts[doc[q].by].deepSearch

\* the patterns of the model that are a term or a list of terms
TermPatterns == {pat \in DOMAIN Patterns : Patterns[pat].kind # "regexp"}

\* the only child of container c is one text node
SingleLeaf(d, c) == MatchClose(d, c) = c + 2 /\ IsText(d[c + 1])

\* the markers inside container c, in document order, each with the offset
\* of its text in the text of c
MarkersIn(d, c) ==
    LET ps == SortedSeq({p \in c + 1 .. MatchClose(d, c) : IsMarker(d[p])})
    IN  [k \in DOMAIN ps |->
            [at |-> Len(TextOfItems(SubSeq(d, c + 1, ps[k] - 1))),
             text |-> TextContent(d, ps[k])]]

\* the occurrences of re in text, as MarkersIn gives markers
Occurrences(re, text) ==
    LET ms == GlobalMatches(re, text, 0)
    IN  [k \in DOMAIN ms |->
            [at |-> ms[k].index,
             text |-> Slice(text, ms[k].index, ms[k].index + ms[k].len)]]

(* C4: round trip.  In shallow mode, I.highlight(p) followed by            *)
(* I.removeHighlights() leaves the text of every container as it was       *)
(* before the highlight call, for every pattern p.                         *)
C4_RoundTrip ==
    \A me \in DOMAIN insts : \A pat \in DOMAIN Patterns :
        ~insts[me].deepSearch =>
            \A marked \in {highlight(doc, me, Patterns[pat]).doc} :
                \A back \in {removeHighlights(marked, me)} :
                    \A k \in DOMAIN Containers(doc, me) :
                        ContainerText(back, me, k) = ContainerText(doc, me, k)

(* C5: every match is marked.  In a container whose text is one leaf, a    *)
(* highlight call for a term or a list of terms that returns has created   *)
(* one marker for each non-overlapping occurrence, the marker's text is    *)
(* the occurrence, and the text of the container is as before; with        *)
(* deepSearch off and with deepSearch on.                                  *)
C5_EveryMatchMarked ==
    \A me \in DOMAIN insts : \A pat \in TermPatterns :
        \A k \in DOMAIN Containers(doc, me) :
            LET c == Containers(doc, me)[k]
                re == buildMergedRegex(Patterns[pat], me)
            IN  (SingleLeaf(doc, c) /\ ~re.null) =>
                    \A r \in {highlight(doc, me, Patterns[pat])} :
                        ~r.hung =>
                            /\ MarkersIn(r.doc, Containers(r.doc, me)[k])
                                   = Occurrences(re, TextContent(doc, c))
                            /\ ContainerText(r.doc, me, k) = TextContent(doc, c)

\* the spans of a deep pass begin at ascending offsets and do not overlap
Ascending(spans) ==
    \A i, j \in DOMAIN spans :
        i < j => spans[i][1] < spans[j][1] /\ spans[i][2] <= spans[j][1]

(* C6: termination.  In deep mode the match loop over a container comes to *)
(* an end for every term and every list of terms, the empty term among     *)
(* them, and the spans it has found are ascending and do not overlap.      *)
C6_DeepLoopTerminates ==
    \A me \in DOMAIN insts : \A pat \in TermPatterns :
        \A k \in DOMAIN Containers(doc, me) :
            LET re == buildMergedRegex(Patterns[pat], me)
            IN  (insts[me].deepSearch /\ ~re.null) =>
                    \A r \in {DeepPass(doc, Containers(doc, me)[k], re, me)} :
                        ~r.hung /\ Ascending(r.spans)

(* C8: every pattern that buildMergedRegex returns has a capture group     *)
(* around the whole alternation, so that $1 in the shallow-mode template   *)
(* stands for the whole matched text.                                      *)
C8_PatternHasGroup ==
    \A me \in DOMAIN insts : \A pat \in DOMAIN Patterns :
        LET re == buildMergedRegex(Patterns[pat], me)
        IN  ~re.null =>
                /\ HasGroup(re)
                /\ \A k \in DOMAIN Containers(doc, me) :
                       LET text == ContainerText(doc, me, k)
                           ms == GlobalMatches(re, text, 0)
                       IN  \A j \in DOMAIN ms :
                               Dollar1(re, Slice(text, ms[j].index, ms[j].index + ms[j].len))
                                   = Slice(text, ms[j].index, ms[j].index + ms[j].len)

\* text is an occurrence of one of the search terms of instance me
IsOccurrence(text, me) ==
    \E t \in Range(insts[me].searchTerms) :
        /\ Len(text) = Len(t)
        /\ \A k \in DOMAIN t : Lower(text[k]) = Lower(t[k])

\* the markers inside container c that carry the class of instance me
OwnMarkersIn(d, c, me) == {p \in OwnMarkers0(d, me) : c < p /\ p < MatchClose(d, c)}

(* C9: when instance X has marked its term in a container and instance Y,  *)
(* constructed with the same term, highlights next, the container holds    *)
(* markers that carry the class of X and markers that carry the class of   *)
(* Y; no marker carries both, each was created by the instance whose       *)
(* class it carries, and the text of each is an occurrence of the term.    *)
C9_EachInstanceItsOwnMarker ==
    [][(/\ last.op = "highlight" /\ last'.op = "highlight"
        /\ last'.i # last.i
        /\ insts[last'.i].searchTerms = insts[last.i].searchTerms) =>
          \A k \in DOMAIN Containers(doc, last.i) :
              LET c == Containers(doc, last.i)[k]
                  c2 == Containers(doc', last.i)[k]
              IN  OwnMarkersIn(doc, c, last.i) # {} =>
                      /\ OwnMarkersIn(doc', c2, last.i) # {}
                      /\ OwnMarkersIn(doc', c2, last'.i) # {}
                      /\ OwnMarkersIn(doc', c2, last.i) \cap OwnMarkersIn(doc', c2, last'.i) = {}
                      /\ \A me \in {last.i, last'.i} : \A p \in OwnMarkersIn(doc', c2, me) :
                             doc'[p].by = me /\ IsOccurrence(TextContent(doc', p), me)]_vars

\* the second of two instances with the term "test" has just highlighted,
\* and a marker of each holds the text "test"
C9_Witness ==
    /\ last.op = "highlight"
    /\ last.n >= 1
    /\ \E X \in DOMAIN insts :
          /\ X # last.i
          /\ insts[X].searchTerms = <<sTest>>
          /\ insts[last.i].searchTerms = <<sTest>>
          /\ \E p \in OwnMarkers0(doc, X), q \in OwnMarkers0(doc, last.i) :
                /\ doc[p].cls # doc[q].cls
                /\ TextContent(doc, p) = sTest
                /\ TextContent(doc, q) = sTest

(* C10: highlight([]) is a no-op.  buildMergedRegex gives no pattern for   *)
(* the empty list, and highlight returns with the document as it was.      *)
C10_EmptyListNoOp ==
    \A me \in DOMAIN insts :
        /\ buildMergedRegex(ArrayPattern(<<>>), me).null
        /\ highlight(doc, me, ArrayPattern(<<>>)) = [doc |-> doc, hung |-> FALSE]

\* highlight has returned early for want of a pattern, on a document that
\* holds markers
C10_Witness ==
    /\ last.op = "highlight"
    /\ last.early
    /\ last.n = 0
    /\ MarkerCount(doc) > 0

\* the elements of d that match the exclusion rule, in document order, each
\* with the nodes inside it
ExcludedContents(d) ==
    LET ps == SortedSeq({p \in DOMAIN d : Excluded(d[p])})
    IN  [k \in DOMAIN ps |-> SubSeq(d, ps[k], MatchClose(d, ps[k]))]

(* C11: elements matching the exclusion rule are not processed.  After a   *)
(* highlight call that returns, every element that matches script, style,  *)
(* textarea, input or [contenteditable="true"] holds the nodes it held     *)
(* before: no marker has been put into it and none of its text has been    *)
(* changed, also when it is a descendant of a selected container.          *)
C11_ExcludedUntouched ==
    [][(last'.op = "highlight" /\ ~hung') =>
          ExcludedContents(doc') = ExcludedContents(doc)]_vars

\* the elements of d, without the text nodes: every opening and closing item
Elements(d) == SelectSeq(d, LAMBDA it : ~IsText(it))

\* a can be had from b by leaving items of b out
RECURSIVE IsSubsequence(_, _)
IsSubsequence(a, b) ==
    IF a = <<>> THEN TRUE
    ELSE IF b = <<>> THEN FALSE
    ELSE IF Head(a) = Head(b) THEN IsSubsequence(Tail(a), Tail(b))
    ELSE IsSubsequence(a, Tail(b))

\* a call of highlight and a call of removeHighlights can be made on every
\* instance: the methods have no precondition, so a call can be made unless
\* an earlier call has not returned and never will
Usable == ~hung

\* a highlight call takes no element out of the document, and the markers
\* of an instance become fewer only by its own removeHighlights
Additive ==
    /\ last'.op = "highlight" =>
           /\ IsSubsequence(Elements(doc), Elements(doc'))
           /\ Cardinality(OwnMarkers(doc', last'.i)) >= Cardinality(OwnMarkers(doc, last'.i))
    /\ \A me \in DOMAIN insts :
           Cardinality(CreatedBy(doc', me)) < Cardinality(CreatedBy(doc, me)) =>
               last'.op = "removeHighlights" /\ last'.i = me

(* C12: the per-instance state machine.  In every reachable state highlight *)
(* and removeHighlights can be called on every instance (no dead state),    *)
(* and highlight is additive: a highlight call of X removes or unwraps no   *)
(* marker, so the markers of X become more with every highlight call and    *)
(* fewer only through X.removeHighlights().                                 *)
C12_UsableAndAdditive == [](Usable) /\ [][Additive]_vars

\* the identifiers of the instances constructed so far
InstanceIds == {insts[k].instanceId : k \in DOMAIN insts}

(* C14: every constructed instance receives an identifier that no instance *)
(* constructed before it has; the process-wide counter strictly increases  *)
(* with each construction, and no other operation changes it: highlight    *)
(* and removeHighlights leave it, and the identifiers given, as they were. *)
C14_UniqueInstanceIds ==
    [][/\ last'.op = "construct" =>
              /\ highlighterIdCounter' > highlighterIdCounter
              /\ Len(insts') = Len(insts) + 1
              /\ insts'[Len(insts')].instanceId \notin InstanceIds
              /\ \A k \in DOMAIN insts : insts'[k].instanceId = insts[k].instanceId
       /\ last'.op \in {"highlight", "removeHighlights"} =>
              /\ highlighterIdCounter' = highlighterIdCounter
              /\ insts' = insts]_vars

\* the second instance has been constructed after a highlight call of the
\* first, and the two have different identifiers
C14_Witness ==
    /\ last.op = "construct"
    /\ last.i = 2
    /\ MarkerCount(doc) > 0
    /\ insts[1].instanceId # insts[2].instanceId


(***************************************************************************)
(* C13: the shared style sheet holds exactly one rule for each instance    *)
(* constructed with custom styles, in construction order, and none for the *)
(* other instances; a step only ever appends to the sheet, so that a rule  *)
(* already there is never changed, moved or removed; and the selectors of  *)
(* two rules differ even though the instances share the marker class.      *)
(***************************************************************************)
Styled == SelectSeq(insts, LAMBDA inst : inst.customStyles)

OneRulePerStyledInstance ==
    /\ Len(sheet) = Len(Styled)
    /\ \A k \in DOMAIN sheet :
           /\ sheet[k].cls = Styled[k].className
           /\ sheet[k].inst = Styled[k].instanceId

SelectorsDiffer == \A j, k \in DOMAIN sheet : j # k => sheet[j] # sheet[k]

AppendOnly ==
    /\ Len(sheet') >= Len(sheet)
    /\ SubSeq(sheet', 1, Len(sheet)) = sheet

C13_SharedStyleSheet ==
    [](OneRulePerStyledInstance /\ SelectorsDiffer) /\ [][AppendOnly]_vars

\* the second of two instances with custom styles and the same marker class
\* has just been constructed
C13_Witness ==
    /\ last.op = "construct"
    /\ Len(insts) = 2
    /\ \A k \in DOMAIN insts : insts[k].customStyles
    /\ insts[1].className = insts[2].className
    /\ Len(sheet) = 2


(***************************************************************************)
(* C15: the pattern built from a string or a list of strings, whatever     *)
(* regex metacharacters the strings hold, is built without a syntax error  *)
(* and matches in a text exactly the literal occurrences of the strings,   *)
(* up to case for a case-insensitive instance: scanning from the left, at  *)
(* the first position where one of the terms stands, the first such term.  *)
(***************************************************************************)
OccursAt(term, text, p, ignoreCase) ==
    /\ p + Len(term) <= Len(text)
    /\ \A j \in 1 .. Len(term) :
           IF ignoreCase THEN Lower(text[p + j]) = Lower(term[j])
           ELSE text[p + j] = term[j]

RECURSIVE LiteralOccurrences(_, _, _, _)
LiteralOccurrences(terms, text, from, ignoreCase) ==
    LET at(p) == {k \in DOMAIN terms : OccursAt(terms[k], text, p, ignoreCase)}
        hits == {p \in from .. Len(text) : at(p) # {}}
        p == Min(hits)
        len == Len(terms[Min(at(p))])
    IN  IF hits = {} THEN <<>>
        ELSE <<[found |-> TRUE, index |-> p, len |-> len]>>
             \o LiteralOccurrences(terms, text, p + len, ignoreCase)

C15_EscapedTermsMatchLiterally ==
    \A me \in DOMAIN insts, k \in DOMAIN MetaPatterns, text \in {sMetaText, sAltText} :
        \A re \in {buildMergedRegex(MetaPatterns[k], me)} :
            /\ ~re.null
            /\ ~re.error
            /\ GlobalMatches(re, text, 0)
                   = LiteralOccurrences(MetaPatterns[k].terms, text, 0, ~insts[me].caseSensitive)

\* highlight('a.b*c') of a case-insensitive instance has marked "A.b*c" and
\* "a.b*c" and left "axbc", which the unescaped pattern matches, unmarked
C15_Witness ==
    /\ last.op = "highlight"
    /\ last.n = 2
    /\ \E p \in MarkerPositions(doc) : doc[p + 1] = Txt(<<"A", ".", "b", "*", "c">>)
    /\ \E p \in MarkerPositions(doc) : doc[p + 1] = Txt(sMeta)
    /\ \E p \in DOMAIN doc : doc[p] = Txt(<<" ", "a", "x", "b", "c", " ">>)


\* for each character of the text of the element opened at c, in document
\* order, the number of markers it is inside of
MarkerDepths(d, c) ==
    LET depth(p) == Cardinality({q \in 1 .. (p - 1) : IsMarker(d[q]) /\ MatchClose(d, q) > p})
    IN  Flatten([k \in 1 .. (MatchClose(d, c) - c - 1) |->
                    IF IsText(d[c + k]) THEN [j \in DOMAIN d[c + k].v |-> depth(c + k)]
                    ELSE <<>>])

\* the 0-based offsets of the characters of c that are inside more markers
\* in e than in d; the text of c is the same in both
FreshlyWrapped(d, e, c) ==
    {o \in 0 .. (Len(TextContent(d, c)) - 1) :
        MarkerDepths(e, c)[o + 1] > MarkerDepths(d, c)[o + 1]}

\* the concatenation of the leaves the TreeWalker accepts under c
AcceptedText(d, c) ==
    LET leaves == SortedSeq(AcceptedLeaves(d, c))
    IN  TextOfItems([k \in DOMAIN leaves |-> d[leaves[k]]])

(***************************************************************************)
(* C16: in deep mode the text the pattern is run against is the            *)
(* concatenation of the accepted leaves of the container, and the          *)
(* characters wrapped for the first match of a pass, resolved through the  *)
(* mappings as they were built, are the characters of the match; also in   *)
(* a container with a white-space leaf before the accepted ones.           *)
(***************************************************************************)
C16_DeepCoordinatesAgree ==
    \A me \in DOMAIN insts : \A pat \in TermPatterns :
        \A c \in Range(Containers(doc, me)) :
            \A re \in {buildMergedRegex(Patterns[pat], me)} :
                (insts[me].deepSearch /\ ~re.null) =>
                    \A text \in {TextContent(doc, c)} :
                        /\ text = AcceptedText(doc, c)
                        /\ \A m \in {MatchFrom(re, text, 0)} :
                               (m.found /\ m.len > 0) =>
                                   \A w \in {wrapRangeDeep(Labelled(doc, c), BuildMappings(doc, c),
                                                           m.index, m.index + m.len - 1, me)} :
                                       /\ TextContent(w.doc, c) = text
                                       /\ FreshlyWrapped(doc, w.doc, c)
                                              = m.index .. (m.index + m.len - 1)


\* each mapping ends, at index + the present length of its node, where the
\* next begins, and the offsets are strictly increasing
Contiguous(textMappings) ==
    \A i \in 1 .. (Len(textMappings) - 1) :
        /\ textMappings[i].index < textMappings[i + 1].index
        /\ textMappings[i].index + textMappings[i].len = textMappings[i + 1].index

(***************************************************************************)
(* C17: the TextMapping sequence of a deep pass is strictly increasing and *)
(* contiguous when it is built, and it still is when the second match of   *)
(* the pass is resolved through it, after the first match has been         *)
(* wrapped.                                                                *)
(***************************************************************************)
C17_MappingsContiguous ==
    \A me \in DOMAIN insts : \A pat \in TermPatterns :
        \A c \in Range(Containers(doc, me)) :
            \A re \in {buildMergedRegex(Patterns[pat], me)} :
                (insts[me].deepSearch /\ ~re.null) =>
                    \A textMappings \in {BuildMappings(doc, c)} :
                        /\ Contiguous(textMappings)
                        /\ \A first \in {RegExpExec(re, TextContent(doc, c), 0)} :
                               (first.m.found /\ first.m.len > 0) =>
                                   \A w \in {wrapRangeDeep(Labelled(doc, c), textMappings, first.m.index,
                                                           first.m.index + first.m.len - 1, me)} :
                                       RegExpExec(re, TextContent(w.doc, c), first.lastIndex).m.found
                                           => Contiguous(w.maps)


\* the text nodes under c that hold a character of the span [from, to) of
\* the text of c
LeavesCovered(d, c, from, to) ==
    {p \in (c + 1) .. (MatchClose(d, c) - 1) :
        /\ IsText(d[p])
        /\ d[p].v # <<>>
        /\ Len(TextOfItems(SubSeq(d, c + 1, p - 1))) < to
        /\ Len(TextOfItems(SubSeq(d, c + 1, p))) > from}

MarkersUnder(d, c) == {p \in (c + 1) .. (MatchClose(d, c) - 1) : IsMarker(d[p])}

(***************************************************************************)
(* C18: when the first match of a deep pass covers more than one leaf,     *)
(* wrapping it creates one marker for each leaf covered, the characters    *)
(* inside the new markers are the characters of the match (the tail of    *)
(* the first leaf, the head of the last, the leaves between whole), and    *)
(* the text of the container is as before.                                 *)
(***************************************************************************)
C18_CrossLeafMatch ==
    \A me \in DOMAIN insts : \A pat \in TermPatterns :
        \A c \in Range(Containers(doc, me)) :
            \A re \in {buildMergedRegex(Patterns[pat], me)} :
                (insts[me].deepSearch /\ ~re.null) =>
                    \A m \in {MatchFrom(re, TextContent(doc, c), 0)} :
                        \A covered \in {IF m.found
                                        THEN LeavesCovered(doc, c, m.index, m.index + m.len)
                                        ELSE {}} :
                            Cardinality(covered) > 1 =>
                                \A w \in {wrapRangeDeep(Labelled(doc, c), BuildMappings(doc, c),
                                                        m.index, m.index + m.len - 1, me)} :
                                    /\ Cardinality(MarkersUnder(w.doc, c))
                                           = Cardinality(MarkersUnder(doc, c)) + Cardinality(covered)
                                    /\ TextContent(w.doc, c) = TextContent(doc, c)
                                    /\ FreshlyWrapped(doc, w.doc, c)
                                           = m.index .. (m.index + m.len - 1)


(***************************************************************************)
(* C19: when the only child of a container is one text node and the first  *)
(* match of a deep pass lies in it, wrapping the match leaves in the       *)
(* place of the leaf the text before the match if there is any, a marker   *)
(* of the instance that holds the matched text, and the text after the     *)
(* match if there is any; no empty text node is left next to the marker.   *)
(***************************************************************************)
C19_SingleLeafMatch ==
    \A me \in DOMAIN insts : \A pat \in TermPatterns :
        \A c \in Range(Containers(doc, me)) :
            \A re \in {buildMergedRegex(Patterns[pat], me)} :
                (insts[me].deepSearch /\ ~re.null /\ SingleLeaf(doc, c)) =>
                    \A text \in {TextContent(doc, c)} :
                        \A m \in {MatchFrom(re, text, 0)} :
                            (m.found /\ m.len > 0) =>
                                \A w \in {wrapRangeDeep(Labelled(doc, c), BuildMappings(doc, c),
                                                        m.index, m.index + m.len - 1, me)} :
                                    SubSeq(Unlabelled(w.doc), c + 1, MatchClose(w.doc, c) - 1)
                                        = (IF m.index = 0 THEN <<>>
                                           ELSE <<Txt(Slice(text, 0, m.index))>>)
                                          \o <<wrapNode(me),
                                               Txt(Slice(text, m.index, m.index + m.len)),
                                               Close>>
                                          \o (IF m.index + m.len = Len(text) THEN <<>>
                                              ELSE <<Txt(Slice(text, m.index + m.len, Len(text)))>>)


\* the accepted leaves under c, in document order, whose parent element
\* carries the marker class of instance me
OwnClassLeaves(d, c, me) ==
    LET leaves == SortedSeq(AcceptedLeaves(d, c))
    IN  {k \in DOMAIN leaves : d[ParentOpen(d, leaves[k])].cls = insts[me].className}

(***************************************************************************)
(* C20: in the guarded deep mode a leaf is flagged exactly when its parent *)
(* carries the marker class of the instance, and a match that starts       *)
(* strictly inside such a leaf, or ends strictly inside one, is discarded: *)
(* wrapRangeDeep leaves the tree as it is.                                 *)
(***************************************************************************)
C20_GuardDiscardsOverlap ==
    \A me \in DOMAIN insts : \A c \in Range(Containers(doc, me)) :
        insts[me].deepSearch =>
            \A textMappings \in {BuildMappingsG(doc, c)} :
                /\ \A k \in DOMAIN textMappings :
                       textMappings[k].isHighlighted <=> k \in OwnClassLeaves(doc, c, me)
                /\ \A re \in Range(getSearchRegexesG(me)) :
                       \A m \in Range(GlobalMatches(re, CombinedText(doc, c), 0)) :
                           (\E k \in OwnClassLeaves(doc, c, me) :
                               \/ /\ textMappings[k].globalStart < m.index
                                  /\ m.index < textMappings[k].globalEnd
                               \/ /\ textMappings[k].globalStart < m.index + m.len
                                  /\ m.index + m.len < textMappings[k].globalEnd)
                           => wrapRangeDeepG(Labelled(doc, c), textMappings,
                                             m.index, m.index + m.len, me).doc
                                  = Labelled(doc, c)


\* the ranges [index, index + len) are in ascending order and no two of
\* them share an offset
SortedDisjoint(textMappings) ==
    \A i, j \in DOMAIN textMappings :
        i < j => textMappings[i].index + textMappings[i].len <= textMappings[j].index

\* the 0-based indices of the mappings whose range holds pos
Holding(textMappings, pos) ==
    {k - 1 : k \in {j \in DOMAIN textMappings :
                       /\ textMappings[j].index <= pos
                       /\ pos < textMappings[j].index + textMappings[j].len}}

\* the index a scan from the first mapping on finds, or -1
LinearScan(textMappings, pos) ==
    IF Holding(textMappings, pos) = {} THEN -1 ELSE Min(Holding(textMappings, pos))

(***************************************************************************)
(* C21: on a TextMapping list whose ranges are sorted and pairwise         *)
(* disjoint, findTextMappingIndex returns for every offset the index of    *)
(* the one mapping whose range holds the offset, and -1 exactly when no    *)
(* range holds it (a negative offset, one past the last range, one in a    *)
(* gap, an empty list); the result is that of a linear scan.               *)
(***************************************************************************)
C21_OffsetLookup ==
    (last.op = "findTextMappingIndex" /\ SortedDisjoint(last.textMappings)) =>
        /\ Cardinality(Holding(last.textMappings, last.pos)) <= 1
        /\ last.result = -1 <=> Holding(last.textMappings, last.pos) = {}
        /\ last.result # -1 => last.result \in Holding(last.textMappings, last.pos)
        /\ last.result = LinearScan(last.textMappings, last.pos)

\* a lookup in a list of three mappings with a gap after the first has
\* found the last mapping
C21_Witness ==
    /\ last.op = "findTextMappingIndex"
    /\ SortedDisjoint(last.textMappings)
    /\ Len(last.textMappings) = 3
    /\ last.textMappings[1].index + last.textMappings[1].len < last.textMappings[2].index
    /\ last.result = 2


\* the patterns of the model that are RegExp objects without the flag g
NonGlobalPatterns ==
    {pat \in DOMAIN Patterns : Patterns[pat].kind = "regexp" /\ ~Patterns[pat].re.g}

(***************************************************************************)
(* C22: in deep mode a highlight call with a RegExp object that lacks the  *)
(* global flag returns: the match loop over the text of each container     *)
(* comes to an end.                                                        *)
(***************************************************************************)
C22_NonGlobalPatternTerminates ==
    \A me \in DOMAIN insts : \A pat \in NonGlobalPatterns :
        insts[me].deepSearch => ~highlight(doc, me, Patterns[pat]).hung


\* for each character of the text of d, the number of markers of instance
\* me it is inside of
OwnMarkerDepths(d, me) ==
    LET depth(p) == Cardinality({q \in OwnMarkers(d, me) : q < p /\ MatchClose(d, q) > p})
    IN  Flatten([p \in DOMAIN d |->
                    IF IsText(d[p]) THEN [j \in DOMAIN d[p].v |-> depth(p)] ELSE <<>>])

(***************************************************************************)
(* C23: when a selected container lies inside another selected container   *)
(* and the document holds no marker of the instance, a highlight call for  *)
(* a term or a list of terms that returns leaves no character inside two   *)
(* nested markers of the instance: an occurrence is wrapped once.          *)
(***************************************************************************)
C23_NoNestedMarkersInOneCall ==
    \A me \in DOMAIN insts : \A pat \in TermPatterns :
        OwnMarkers(doc, me) = {} =>
            \A r \in {highlight(doc, me, Patterns[pat])} :
                ~r.hung => \A k \in DOMAIN OwnMarkerDepths(r.doc, me) :
                               OwnMarkerDepths(r.doc, me)[k] <= 1

====
